---- MODULE Spec2Model ----
(***************************************************************************)
(* Model of the Delhi High Court order-portal crawler (src/main.py).       *)
(*                                                                         *)
(* The enumeration driver (__main__), the case detail resolver             *)
(* (get_case_details), the row extractor (parse_order_row) with its        *)
(* thread pool, the document fetcher (download_pdf), the archive uploader  *)
(* (upload_pdf_to_azure), clean_up and save_to_mongodb are modelled as     *)
(* one state machine.  The upstream portal, the local disk, the archive    *)
(* and the document store are the environment: every answer they can give  *)
(* is a nondeterministic choice.                                           *)
(*                                                                         *)
(* Python values: None is the empty tuple, a present optional value x is   *)
(* <<x>>; a dict is a record; a text is a tuple of one-character strings   *)
(* where strip() and replace() matter, a string otherwise; a path is the   *)
(* tuple of its "/"-separated components.                                  *)
(***************************************************************************)
EXTENDS Integers, Sequences, FiniteSets, TLC

(***************************************************************************)
(* Bounds of the model.                                                    *)
(***************************************************************************)
\* The crawl start year (the source configures 2023); the floor is 2000.
StartYear == 2001
\* Number of case types of the catalog that are crawled (a prefix of it).
NumTypes == 2
\* The upstream registry holds at most MaxHits cases.
MaxHits == 1
\* Largest number of data rows of a results table.
MaxRows == 2
\* Number of calls of the uploader when it is exercised on its own.
MaxCalls == 2

(***************************************************************************)
(* Program constants.                                                      *)
(***************************************************************************)
FloorYear == 2000
MissThreshold == 20
max_workers == 5
NumCells == 5

PDF_DIR == "pdf"

AllCaseTypes ==
  << "RFA(OS)(COMM)", "FAO(OS) (COMM)", "EFA(OS)  (COMM)", "EFA(COMM)",
     "RFA(COMM)", "FAO(COMM)", "CS(COMM)", "O.M.P.(I) (COMM.)",
     "O.M.P. (E) (COMM.)", "O.M.P. (J) (COMM.)", "O.M.P. (T) (COMM.)",
     "O.M.P. (COMM)", "ARB. A. (COMM.)", "C.O. (COMM.IPD-TM)",
     "C.O.(COMM.IPD-CR)", "C.O.(COMM.IPD-PAT)", "C.A.(COMM.IPD-GI)",
     "C.A.(COMM.IPD-PAT)", "C.A.(COMM.IPD-PV)", "C.A.(COMM.IPD-TM)" >>

REQUIRED_CASE_TYPES == SubSeq(AllCaseTypes, 1, NumTypes)

(***************************************************************************)
(* Python helpers.                                                         *)
(***************************************************************************)
None == << >>

Some(x) == << x >>

\* Truth value of an optional dict or string, as "if x:" tests it.
Truthy(x) == x # None /\ x[1] # << >>

NBSP == "nbsp"

IsSpace(c) == c \in {" ", NBSP, "\n", "\t"}

RECURSIVE LStrip(_)
LStrip(t) == IF t # << >> /\ IsSpace(Head(t)) THEN LStrip(Tail(t)) ELSE t

RECURSIVE RStrip(_)
RStrip(t) ==
  IF t # << >> /\ IsSpace(t[Len(t)]) THEN RStrip(SubSeq(t, 1, Len(t) - 1)) ELSE t

\* str.strip()
Strip(t) == RStrip(LStrip(t))

\* str.replace("\xa0", " ")
ReplaceNbsp(t) == [i \in 1..Len(t) |-> IF t[i] = NBSP THEN " " ELSE t[i]]

\* str(n) for the integers of the cursor.
Str(n) == ToString(n)

(***************************************************************************)
(* The upstream portal: every answer it can give to a case lookup.         *)
(***************************************************************************)
\* The file path that row i's document link opens.
DocPath(i) == "orders/" \o Str(i) \o ".pdf"

\* A <td>: its text and its first <a>, if any.
Cell(i, k, link) ==
  [ text |-> << " ", Str(i) \o "." \o Str(k), "\n" >>,
    a    |-> IF k = 2 /\ link
             THEN Some([onclick |-> << "javascript:openfile(", DocPath(i), ")" >>])
             ELSE None ]

\* A data <tr> of the results table: row i with n cells.
MkRow(i, kind) == [ td |-> [k \in 1..kind.n |-> Cell(i, k, kind.link)] ]

RowKinds ==
  { [n |-> NumCells, link |-> FALSE],
    [n |-> NumCells, link |-> TRUE],
    [n |-> NumCells - 1, link |-> FALSE] }

HeaderRow == [ td |-> << >> ]

\* The <table> elements: a header row followed by 0..MaxRows data rows.
Tables ==
  { [ tr |-> << HeaderRow >> \o [i \in DOMAIN ks |-> MkRow(i, ks[i])] ] :
      ks \in UNION { [1..n -> RowKinds] : n \in 0..MaxRows } }

PartiesHeading == [ text |-> << " ", "A", NBSP, "v", NBSP, "B", NBSP >>, span |-> << >> ]

StatusSpans == << [text |-> << " ", "P", " " >>], [text |-> << "1", "2", "\n" >>] >>

StatusHeading(n) == [ text |-> << "S" >>, span |-> SubSeq(StatusSpans, 1, n) ]

\* Pages without the two heading blocks: the portal's "no such case" page.
NoCasePages ==
  { [ kind |-> "page", h5 |-> SubSeq(<< PartiesHeading >>, 1, n), table |-> None ] :
      n \in 0..1 }

\* Pages of an existing case.
CasePages ==
  { [ kind |-> "page", h5 |-> << PartiesHeading, StatusHeading(n) >>, table |-> t ] :
      n \in 0..2, t \in {None} \cup { Some(tb) : tb \in Tables } }

\* sess.post raising (connection, timeout) and raise_for_status raising.
FailedResponses ==
  { [kind |-> "connection_error"], [kind |-> "timeout"], [kind |-> "http_error"] }

(***************************************************************************)
(* State.                                                                  *)
(***************************************************************************)
VARIABLES
  pc,                 \* where the main thread is
  captcha_code,       \* the token returned by get_captcha
  FROM_YEAR,          \* the year cursor (module global, decremented)
  type_idx,           \* position of case_type in REQUIRED_CASE_TYPES
  case_no,            \* the case number cursor
  continuous_no_case, \* the miss counter
  query,              \* arguments of the current get_case_details call
  page,               \* the upstream's answer to the lookup being handled
  data,               \* the dict get_case_details is building
  futures,            \* one future per data row submitted to the executor
  mapRaised,          \* executor.map's iterator has raised
  result,             \* what get_case_details returned
  exc,                \* the exception that ended the process, if any
  store,              \* the documents inserted into the collection
  disk,               \* the files under PDF_DIR
  archive,            \* the blobs of the container
  uuid,               \* source of fresh file names
  probed,             \* the lookups issued for the current (year, type)
  hits                \* their outcomes, as the driver saw them

vars ==
  << pc, captcha_code, FROM_YEAR, type_idx, case_no, continuous_no_case,
     query, page, data, futures, mapRaised, result, exc, store, disk,
     archive, uuid, probed, hits >>

cursor == << FROM_YEAR, type_idx, case_no, continuous_no_case >>

poolVars == << data, futures, mapRaised >>

sinks == << store, disk, archive, uuid >>

case_type == REQUIRED_CASE_TYPES[type_idx]

NoQuery == [ctype |-> "", regno |-> "", regyr |-> "", japtcha |-> ""]

NoPage == [kind |-> "none"]

Init ==
  /\ pc = "captcha"
  /\ captcha_code = None
  /\ FROM_YEAR = StartYear
  /\ type_idx = 1
  /\ case_no = 1
  /\ continuous_no_case = 0
  /\ query = NoQuery
  /\ page = NoPage
  /\ data = None
  /\ futures = << >>
  /\ mapRaised = FALSE
  /\ result = None
  /\ exc = None
  /\ store = << >>
  /\ disk = {}
  /\ archive = {}
  /\ uuid = 1
  /\ probed = << >>
  /\ hits = << >>

(***************************************************************************)
(* get_captcha and the entry into the loops.                               *)
(***************************************************************************)
\* What get_captcha can return: None on a request error or a missing
\* trigger element, else the stripped text of the element.
CaptchaAnswers ==
  { None, Some(Strip(<< >>)), Some(Strip(<< " ", "t", "o", "k", "\n" >>)) }

\* "while FROM_YEAR >= 2000": enter the for loop at its first type, or stop.
EnterYear(y) ==
  IF y >= FloorYear
  THEN /\ pc' = "probe"
       /\ type_idx' = 1
       /\ continuous_no_case' = 0
       /\ case_no' = 1
  ELSE /\ pc' = "done"
       /\ UNCHANGED << type_idx, continuous_no_case, case_no >>

GetCaptchaOk ==
  /\ pc = "captcha"
  /\ \E c \in CaptchaAnswers :
       /\ Truthy(c)
       /\ captcha_code' = c
  /\ EnterYear(FROM_YEAR)
  /\ UNCHANGED << FROM_YEAR, query, page, poolVars, result, exc, sinks, probed, hits >>

\* Variant: an empty token starts the crawl all the same.
GetCaptchaFails_Starts ==
  /\ pc = "captcha"
  /\ \E c \in CaptchaAnswers :
       /\ ~Truthy(c)
       /\ c # None
       /\ captcha_code' = c
  /\ EnterYear(FROM_YEAR)
  /\ UNCHANGED << FROM_YEAR, query, page, poolVars, result, exc, sinks, probed, hits >>

\* get_captcha gave None or an empty text: the else branch, and the end.
GetCaptchaFails ==
  /\ pc = "captcha"
  /\ \E c \in CaptchaAnswers :
       /\ ~Truthy(c)
       /\ captcha_code' = c
  /\ pc' = "no_captcha"
  /\ UNCHANGED << cursor, query, page, poolVars, result, exc, sinks, probed, hits >>

(***************************************************************************)
(* get_case_details: the lookup request and the parsing of the headings.   *)
(***************************************************************************)
\* The registry of the upstream is bounded: a case page can only come back
\* while fewer than MaxHits cases were found.
CanExist == Len(store) < MaxHits

\* The arguments of the call of get_case_details.
CaseQuery ==
  [ ctype   |-> case_type,
    regno   |-> Str(case_no),
    regyr   |-> Str(FROM_YEAR),
    japtcha |-> captcha_code[1] ]

\* The dict built from the two heading blocks.
ParseHeadings(p) ==
  LET all_heading == p.h5
      rows == all_heading[2].span
      d == [ parties   |-> ReplaceNbsp(Strip(all_heading[1].text)),
             status    |-> << >>,
             next_date |-> << >>,
             orders    |-> << >> ]
  IN  IF Len(rows) >= 2
      THEN [d EXCEPT !.status = Strip(rows[1].text),
                     !.next_date = Strip(rows[2].text)]
      ELSE d

\* A future of the executor before a worker has taken it.
PendingFuture ==
  [ st |-> "pending", temp |-> None, pdf_path |-> "", path |-> None, exc |-> None ]

\* The request is sent: the call's arguments and the answer are recorded.
Issue(resp) ==
  /\ query' = CaseQuery
  /\ page' = resp
  /\ probed' = Append(probed, CaseQuery.regno)

\* table.find_all("tr")[1:], or nothing when the page has no table.
DataRows(p) ==
  IF p.table = None
  THEN << >>
  ELSE LET tr == p.table[1].tr IN SubSeq(tr, 2, Len(tr))

\* The pages the upstream can answer the current lookup with.
UpstreamPages == NoCasePages \cup (IF CanExist THEN CasePages ELSE {})

\* Variant: a status heading with fewer than two spans counts as missing.
HeadingsMissing_Strict(p) ==
  IF Len(p.h5) < 2 THEN TRUE ELSE Len(p.h5[2].span) < 2

\* len(all_heading) < 2
HeadingsMissing(p) == Len(p.h5) < 2

\* Variant: the RequestException is not caught.
ProbeRequestFails_Raises ==
  /\ pc = "probe"
  /\ \E resp \in FailedResponses : Issue(resp)
  /\ exc' = Some("RequestException")
  /\ pc' = "raised"
  /\ UNCHANGED << captcha_code, cursor, poolVars, result, sinks, hits >>

\* sess.post or raise_for_status raises a RequestException: return None.
ProbeRequestFails ==
  /\ pc = "probe"
  /\ \E resp \in FailedResponses : Issue(resp)
  /\ result' = None
  /\ pc' = "handle"
  /\ UNCHANGED << captcha_code, cursor, poolVars, exc, sinks, hits >>

\* Fewer than two heading blocks: return None.
ProbeNoHeadings ==
  /\ pc = "probe"
  /\ \E resp \in UpstreamPages :
       /\ HeadingsMissing(resp)
       /\ Issue(resp)
  /\ result' = None
  /\ pc' = "handle"
  /\ UNCHANGED << captcha_code, cursor, poolVars, exc, sinks, hits >>

\* Two heading blocks and no data row to extract: return the dict.
ProbeNoRows ==
  /\ pc = "probe"
  /\ \E resp \in UpstreamPages :
       /\ ~HeadingsMissing(resp)
       /\ DataRows(resp) = << >>
       /\ Issue(resp)
       /\ result' = Some(ParseHeadings(resp))
  /\ pc' = "handle"
  /\ UNCHANGED << captcha_code, cursor, poolVars, exc, sinks, hits >>

\* Two heading blocks and a table with data rows: executor.map submits one
\* future per row and the main thread waits for the results.
ProbeWithRows ==
  /\ pc = "probe"
  /\ \E resp \in UpstreamPages :
       /\ ~HeadingsMissing(resp)
       /\ DataRows(resp) # << >>
       /\ Issue(resp)
       /\ data' = Some(ParseHeadings(resp))
       /\ futures' = [i \in 1..Len(DataRows(resp)) |-> PendingFuture]
  /\ mapRaised' = FALSE
  /\ pc' = "pool"
  /\ UNCHANGED << captcha_code, cursor, result, exc, sinks, hits >>

(***************************************************************************)
(* The executor's workers: parse_order_row on one row each.                *)
(***************************************************************************)
Running(f) == f.st \in {"download", "upload", "cleanup"}

NumRunning == Cardinality({ j \in DOMAIN futures : Running(futures[j]) })

\* The five display fields, by position.
RowFields(cells) ==
  [ snumber         |-> Strip(cells[1].text),
    case_number     |-> Strip(cells[2].text),
    date_of_order   |-> Strip(cells[3].text),
    corrigenda_link |-> Strip(cells[4].text),
    hindi_order     |-> Strip(cells[5].text) ]

\* pdf_link and pdf_link.get("onclick")
HasLink(cells) == cells[2].a # None /\ cells[2].a[1].onclick # << >>

\* pdf_link["onclick"].split("'")[1]
LinkPath(cells) == cells[2].a[1].onclick[2]

\* Variant: the executor starts a thread for every row at once.
RowStart_NoCap(i) ==
  /\ pc = "pool"
  /\ futures[i].st = "pending"
  /\ \A j \in 1..(i - 1) : futures[j].st # "pending"
  /\ LET cells == DataRows(page)[i].td
         f == futures[i]
     IN  futures' = [futures EXCEPT ![i] =
           IF Len(cells) < NumCells
           THEN [f EXCEPT !.st = "raised", !.exc = Some("IndexError")]
           ELSE IF HasLink(cells)
           THEN [f EXCEPT !.st = "download", !.temp = RowFields(cells),
                          !.pdf_path = LinkPath(cells)]
           ELSE [f EXCEPT !.st = "done",
                          !.temp = RowFields(cells) @@ [url |-> None]]]
  /\ UNCHANGED << pc, captcha_code, cursor, query, page, data, mapRaised,
                  result, exc, sinks, probed, hits >>

\* A free worker takes the oldest pending future and runs parse_order_row
\* up to the download: the cells are read (IndexError on a short row) and
\* a row without a link is finished at once with url None.
RowStart(i) ==
  /\ pc = "pool"
  /\ futures[i].st = "pending"
  /\ \A j \in 1..(i - 1) : futures[j].st # "pending"
  /\ NumRunning < max_workers
  /\ LET cells == DataRows(page)[i].td
         f == futures[i]
     IN  futures' = [futures EXCEPT ![i] =
           IF Len(cells) < NumCells
           THEN [f EXCEPT !.st = "raised", !.exc = Some("IndexError")]
           ELSE IF HasLink(cells)
           THEN [f EXCEPT !.st = "download", !.temp = RowFields(cells),
                          !.pdf_path = LinkPath(cells)]
           ELSE [f EXCEPT !.st = "done",
                          !.temp = RowFields(cells) @@ [url |-> None]]]
  /\ UNCHANGED << pc, captcha_code, cursor, query, page, data, mapRaised,
                  result, exc, sinks, probed, hits >>

\* os.path.join(PDF_DIR, f"{uuid.uuid4().hex}.pdf")
FilePath(u) == << PDF_DIR, Str(u) \o ".pdf" >>

DownloadOutcomes == {"ok", "request_error", "stream_error", "os_error"}

\* download_pdf: "request_error" is the post or raise_for_status raising,
\* "stream_error" the connection breaking inside iter_content after the
\* file was opened (both RequestException: None is returned), "os_error"
\* makedirs or open raising, which download_pdf does not catch.
RowDownload(i) ==
  /\ pc = "pool"
  /\ futures[i].st = "download"
  /\ uuid' = uuid + 1
  /\ \E out \in DownloadOutcomes :
       LET f == futures[i]
           file_path == FilePath(uuid)
           file(whole) == [path |-> file_path, content |-> f.pdf_path, whole |-> whole]
       IN  CASE out = "ok" ->
                  /\ disk' = disk \cup {file(TRUE)}
                  /\ futures' = [futures EXCEPT ![i] =
                       [f EXCEPT !.st = "upload", !.path = Some(file_path)]]
             [] out = "request_error" ->
                  /\ disk' = disk
                  /\ futures' = [futures EXCEPT ![i] =
                       [f EXCEPT !.st = "cleanup", !.path = None]]
             [] out = "stream_error" ->
                  /\ disk' = disk \cup {file(FALSE)}
                  /\ futures' = [futures EXCEPT ![i] =
                       [f EXCEPT !.st = "cleanup", !.path = None]]
             [] out = "os_error" ->
                  /\ disk' = disk
                  /\ futures' = [futures EXCEPT ![i] =
                       [f EXCEPT !.st = "raised", !.exc = Some("OSError")]]
  /\ UNCHANGED << pc, captcha_code, cursor, query, page, data, mapRaised,
                  result, exc, store, archive, probed, hits >>

\* file_path.split("/")[-1]
BlobName(file_path) == file_path[Len(file_path)]

\* blob_client.url
BlobUrl(blob_name) == "https://archive/" \o blob_name

UploadOutcomes == {"ok", "unreachable", "upload_error"}

\* Variant: a failed upload gives an empty string instead of None.
upload_pdf_to_azure_EmptyOnFailure(blobs, file_path, content, out) ==
  LET blob_name == BlobName(file_path)
      others == { b \in blobs : b.name # blob_name }
      blob == [name |-> blob_name, content |-> content]
  IN  CASE out = "ok" ->
             [archive |-> others \cup {blob}, url |-> Some(BlobUrl(blob_name))]
        [] out = "unreachable" ->
             [archive |-> blobs, url |-> Some("")]
        [] out = "upload_error" ->
             [archive |-> others, url |-> Some("")]

\* Variant: the upload adds a version and keeps the object that was there.
upload_pdf_to_azure_Keeps(blobs, file_path, content, out) ==
  LET blob_name == BlobName(file_path)
      blob == [name |-> blob_name, content |-> content]
  IN  IF out = "ok"
      THEN [archive |-> blobs \cup {blob}, url |-> Some(BlobUrl(blob_name))]
      ELSE [archive |-> blobs, url |-> None]

\* upload_pdf_to_azure on a container holding blobs: an existing blob of
\* that name is deleted, the file is uploaded and the URL returned; any
\* exception gives None ("unreachable" before the container is touched,
\* "upload_error" after the delete).
upload_pdf_to_azure(blobs, file_path, content, out) ==
  LET blob_name == BlobName(file_path)
      others == { b \in blobs : b.name # blob_name }
      blob == [name |-> blob_name, content |-> content]
  IN  CASE out = "ok" ->
             [archive |-> others \cup {blob}, url |-> Some(BlobUrl(blob_name))]
        [] out = "unreachable" ->
             [archive |-> blobs, url |-> None]
        [] out = "upload_error" ->
             [archive |-> others, url |-> None]

\* temp["url"] = upload_pdf_to_azure(downloaded_file_path), entered only
\* with a downloaded file.
RowUpload(i) ==
  /\ pc = "pool"
  /\ futures[i].st = "upload"
  /\ \E out \in UploadOutcomes :
       LET f == futures[i]
           up == upload_pdf_to_azure(archive, f.path[1], f.pdf_path, out)
       IN  /\ archive' = up.archive
           /\ futures' = [futures EXCEPT ![i] =
                [f EXCEPT !.st = "cleanup", !.temp = f.temp @@ [url |-> up.url]]]
  /\ UNCHANGED << pc, captcha_code, cursor, query, page, data, mapRaised,
                  result, exc, store, disk, uuid, probed, hits >>

\* Variant: clean_up leaves the file where it is.
RowCleanUp_KeepsFile(i) ==
  /\ pc = "pool"
  /\ futures[i].st = "cleanup"
  /\ LET f == futures[i]
     IN  IF f.path = None
         THEN futures' = [futures EXCEPT ![i] =
                [f EXCEPT !.st = "raised", !.exc = Some("TypeError")]]
         ELSE futures' = [futures EXCEPT ![i] = [f EXCEPT !.st = "done"]]
  /\ UNCHANGED << pc, captcha_code, cursor, query, page, data, mapRaised,
                  result, exc, sinks, probed, hits >>

\* clean_up(downloaded_file_path) and the return of the row's dict:
\* os.path.exists(None) raises TypeError when the download gave no path.
RowCleanUp(i) ==
  /\ pc = "pool"
  /\ futures[i].st = "cleanup"
  /\ LET f == futures[i]
     IN  IF f.path = None
         THEN /\ futures' = [futures EXCEPT ![i] =
                   [f EXCEPT !.st = "raised", !.exc = Some("TypeError")]]
              /\ disk' = disk
         ELSE /\ futures' = [futures EXCEPT ![i] = [f EXCEPT !.st = "done"]]
              /\ disk' = { d \in disk : d.path # f.path[1] }
  /\ UNCHANGED << pc, captcha_code, cursor, query, page, data, mapRaised,
                  result, exc, store, archive, uuid, probed, hits >>

(***************************************************************************)
(* The main thread inside executor.map and the "with" block.               *)
(***************************************************************************)
\* The first future, in row order, whose result() raises.
FirstRaised ==
  CHOOSE i \in DOMAIN futures :
    /\ futures[i].st = "raised"
    /\ \A j \in 1..(i - 1) : futures[j].st # "raised"

\* Variant: the results are collected last row first.
Orders_Reversed ==
  [i \in DOMAIN futures |-> futures[Len(futures) + 1 - i].temp]

\* list(executor.map(...)): the results in row order.
Orders == [i \in DOMAIN futures |-> futures[i].temp]

\* The result iterator reaches a future that raised (all earlier ones gave
\* their result): the exception is re-raised in the main thread and the
\* iterator cancels the futures no worker has taken yet.
MapRaise ==
  /\ pc = "pool"
  /\ ~mapRaised
  /\ \E i \in DOMAIN futures :
       /\ futures[i].st = "raised"
       /\ \A j \in 1..(i - 1) : futures[j].st = "done"
  /\ mapRaised' = TRUE
  /\ futures' = [i \in DOMAIN futures |->
       IF futures[i].st = "pending"
       THEN [futures[i] EXCEPT !.st = "cancelled"]
       ELSE futures[i]]
  /\ UNCHANGED << pc, captcha_code, cursor, query, page, data, result, exc,
                  sinks, probed, hits >>

\* Every row gave a result: the executor shuts down and the dict is returned.
PoolReturn ==
  /\ pc = "pool"
  /\ \A i \in DOMAIN futures : futures[i].st = "done"
  /\ result' = Some([data[1] EXCEPT !.orders = Orders])
  /\ data' = None
  /\ futures' = << >>
  /\ pc' = "handle"
  /\ UNCHANGED << captcha_code, cursor, query, page, mapRaised, exc, sinks,
                  probed, hits >>

\* The "with" block is left by the exception once the running workers have
\* finished (shutdown(wait=True)); it is no RequestException, so it leaves
\* get_case_details and, uncaught in __main__, ends the process.
PoolRaise ==
  /\ pc = "pool"
  /\ mapRaised
  /\ \A i \in DOMAIN futures : ~Running(futures[i])
  /\ exc' = futures[FirstRaised].exc
  /\ pc' = "raised"
  /\ UNCHANGED << captcha_code, cursor, query, page, poolVars, result, sinks,
                  probed, hits >>

(***************************************************************************)
(* The enumeration driver: the body of the inner while loop.               *)
(***************************************************************************)
\* Variant: the format of the progress line, without the year.
CaseInfo_NoYear == case_type \o "/" \o Str(case_no)

\* f"{case_type}/{case_no}/{FROM_YEAR}"
CaseInfo == case_type \o "/" \o Str(case_no) \o "/" \o Str(FROM_YEAR)

\* "if not result": continuous_no_case += 1
HandleMiss ==
  /\ pc = "handle"
  /\ result = None
  /\ continuous_no_case' = continuous_no_case + 1
  /\ hits' = Append(hits, FALSE)
  /\ page' = NoPage
  /\ pc' = "check"
  /\ UNCHANGED << captcha_code, FROM_YEAR, type_idx, case_no, query,
                  poolVars, result, exc, sinks, probed >>

\* Variant: a hit starts the count of misses again.
HandleHit_Resets ==
  /\ pc = "handle"
  /\ result # None
  /\ store' = Append(store, result[1] @@ [case_info |-> CaseInfo])
  /\ continuous_no_case' = 0
  /\ hits' = Append(hits, TRUE)
  /\ page' = NoPage
  /\ pc' = "check"
  /\ UNCHANGED << captcha_code, FROM_YEAR, type_idx, case_no, query, poolVars,
                  result, exc, disk, archive, uuid, probed >>

\* Variant: the annotated dict is never inserted.
HandleHit_NoInsert ==
  /\ pc = "handle"
  /\ result # None
  /\ hits' = Append(hits, TRUE)
  /\ page' = NoPage
  /\ pc' = "check"
  /\ UNCHANGED << captcha_code, cursor, query, poolVars, result, exc, sinks,
                  probed >>

\* else: the dict gets its case_info and is inserted.
HandleHit ==
  /\ pc = "handle"
  /\ result # None
  /\ store' = Append(store, result[1] @@ [case_info |-> CaseInfo])
  /\ hits' = Append(hits, TRUE)
  /\ page' = NoPage
  /\ pc' = "check"
  /\ UNCHANGED << captcha_code, cursor, query, poolVars, result, exc,
                  disk, archive, uuid, probed >>

\* collection.insert_one raises: nothing catches it, the process ends.
HandleHitInsertRaises ==
  /\ pc = "handle"
  /\ result # None
  /\ exc' = Some("PyMongoError")
  /\ pc' = "raised"
  /\ UNCHANGED << captcha_code, cursor, query, page, poolVars, result, sinks,
                  probed, hits >>

\* Variant: the break test is off by one.
ThresholdReached_Late == continuous_no_case = MissThreshold + 1

\* "if continuous_no_case == 20: break"
ThresholdReached == continuous_no_case = MissThreshold

\* No break: case_no += 1 and the next lookup.
Continue ==
  /\ pc = "check"
  /\ ~ThresholdReached
  /\ case_no' = case_no + 1
  /\ pc' = "probe"
  /\ UNCHANGED << captcha_code, FROM_YEAR, type_idx, continuous_no_case, query,
                  page, poolVars, result, exc, sinks, probed, hits >>

\* Variant: the next case type starts without resetting case_no.
NextType_KeepsNumber ==
  /\ pc = "check"
  /\ ThresholdReached
  /\ type_idx < Len(REQUIRED_CASE_TYPES)
  /\ type_idx' = type_idx + 1
  /\ continuous_no_case' = 0
  /\ probed' = << >>
  /\ hits' = << >>
  /\ pc' = "probe"
  /\ UNCHANGED << captcha_code, FROM_YEAR, case_no, query, page, poolVars,
                  result, exc, sinks >>

\* break, and the for loop has a next case type.
NextType ==
  /\ pc = "check"
  /\ ThresholdReached
  /\ type_idx < Len(REQUIRED_CASE_TYPES)
  /\ type_idx' = type_idx + 1
  /\ continuous_no_case' = 0
  /\ case_no' = 1
  /\ probed' = << >>
  /\ hits' = << >>
  /\ pc' = "probe"
  /\ UNCHANGED << captcha_code, FROM_YEAR, query, page, poolVars, result, exc,
                  sinks >>

\* break after the last case type: FROM_YEAR -= 1 and the while test.
NextYear ==
  /\ pc = "check"
  /\ ThresholdReached
  /\ type_idx = Len(REQUIRED_CASE_TYPES)
  /\ FROM_YEAR' = FROM_YEAR - 1
  /\ EnterYear(FROM_YEAR - 1)
  /\ probed' = << >>
  /\ hits' = << >>
  /\ UNCHANGED << captcha_code, query, page, poolVars, result, exc, sinks >>

Next ==
  \/ GetCaptchaOk
  \/ GetCaptchaFails
  \/ ProbeRequestFails
  \/ ProbeNoHeadings
  \/ ProbeNoRows
  \/ ProbeWithRows
  \/ \E i \in DOMAIN futures : RowStart(i)
  \/ \E i \in DOMAIN futures : RowDownload(i)
  \/ \E i \in DOMAIN futures : RowUpload(i)
  \/ \E i \in DOMAIN futures : RowCleanUp(i)
  \/ MapRaise
  \/ PoolReturn
  \/ PoolRaise
  \/ HandleMiss
  \/ HandleHit
  \/ HandleHitInsertRaises
  \/ Continue
  \/ NextType
  \/ NextYear

Spec == Init /\ [][Next]_vars

\* A results table with one more data row than the executor has workers,
\* every row with a document.
BusyPage ==
  [ kind  |-> "page",
    h5    |-> << PartiesHeading, StatusHeading(2) >>,
    table |-> Some([ tr |-> << HeaderRow >> \o
                [i \in 1..(max_workers + 1) |->
                   MkRow(i, [n |-> NumCells, link |-> TRUE])] ]) ]

\* The first lookup of the crawl was answered with BusyPage: the workers
\* have taken the first max_workers rows and each has downloaded its
\* document; the last row waits for a free worker.
BusyPoolInit ==
  /\ pc = "pool"
  /\ captcha_code = Some(Strip(<< " ", "t", "o", "k", "\n" >>))
  /\ FROM_YEAR = StartYear
  /\ type_idx = 1
  /\ case_no = 1
  /\ continuous_no_case = 0
  /\ query = [ ctype   |-> REQUIRED_CASE_TYPES[1],
               regno   |-> Str(1),
               regyr   |-> Str(StartYear),
               japtcha |-> Strip(<< " ", "t", "o", "k", "\n" >>) ]
  /\ page = BusyPage
  /\ data = Some(ParseHeadings(BusyPage))
  /\ futures =
       [i \in 1..(max_workers + 1) |->
          IF i <= max_workers
          THEN [ PendingFuture EXCEPT
                   !.st = "upload",
                   !.temp = RowFields(DataRows(BusyPage)[i].td),
                   !.pdf_path = LinkPath(DataRows(BusyPage)[i].td),
                   !.path = Some(FilePath(i)) ]
          ELSE PendingFuture]
  /\ mapRaised = FALSE
  /\ result = None
  /\ exc = None
  /\ store = << >>
  /\ disk = { [path |-> FilePath(i), content |-> DocPath(i), whole |-> TRUE] :
                i \in 1..max_workers }
  /\ archive = {}
  /\ uuid = max_workers + 1
  /\ probed = << Str(1) >>
  /\ hits = << >>

\* The crawl from its start, and from the pool at work on BusyPage.
PoolSpec == (Init \/ BusyPoolInit) /\ [][Next]_vars

\* The process is never suspended for ever: the main thread and the pool's
\* workers keep running while one of them has a step to take.
FairSpec == Spec /\ WF_vars(Next)

(***************************************************************************)
(* upload_pdf_to_azure on its own: the calls are made one after the other  *)
(* on local files of any name, against a container of any content.  Here   *)
(* futures is the list of the calls made, each with its arguments and the  *)
(* URL it returned.                                                        *)
(***************************************************************************)
BlobNames == { Str(n) \o ".pdf" : n \in 1..2 }

Contents == { DocPath(n) : n \in 1..2 }

\* A container holds at most one blob under a name.
Containers ==
  { c \in SUBSET [name : BlobNames, content : Contents] :
      \A a \in c : \A b \in c : a.name = b.name => a = b }

LocalFiles ==
  [ path : { << PDF_DIR, n >> : n \in BlobNames }, content : Contents, whole : {TRUE} ]

UploaderInit ==
  /\ pc = "uploader"
  /\ archive \in Containers
  /\ disk \in { {f} : f \in LocalFiles }
  /\ futures = << >>
  /\ captcha_code = None
  /\ FROM_YEAR = StartYear
  /\ type_idx = 1
  /\ case_no = 1
  /\ continuous_no_case = 0
  /\ query = NoQuery
  /\ page = NoPage
  /\ data = None
  /\ mapRaised = FALSE
  /\ result = None
  /\ exc = None
  /\ store = << >>
  /\ uuid = 1
  /\ probed = << >>
  /\ hits = << >>

\* One call of upload_pdf_to_azure(file_path) on a file of the disk.
UploadCall ==
  /\ pc = "uploader"
  /\ Len(futures) < MaxCalls
  /\ \E file \in disk : \E out \in UploadOutcomes :
       LET up == upload_pdf_to_azure(archive, file.path, file.content, out)
       IN  /\ archive' = up.archive
           /\ futures' = Append(futures,
                [PendingFuture EXCEPT !.st = "done", !.temp = [url |-> up.url],
                                      !.pdf_path = file.content,
                                      !.path = Some(file.path)])
  /\ UNCHANGED << pc, captcha_code, cursor, query, page, data, mapRaised,
                  result, exc, store, disk, uuid, probed, hits >>

\* Between two calls another file is written to the local directory, under
\* the same name or another one.
LocalWrite ==
  /\ pc = "uploader"
  /\ \E f \in LocalFiles :
       /\ disk # {f}
       /\ disk' = {f}
  /\ UNCHANGED << pc, captcha_code, cursor, query, page, poolVars, result, exc,
                  store, archive, uuid, probed, hits >>

UploaderNext == UploadCall \/ LocalWrite

UploaderSpec == UploaderInit /\ [][UploaderNext]_vars

(***************************************************************************)
(* Properties.                                                             *)
(***************************************************************************)

\* C1: no lookup is issued while the miss counter of the current
\* (year, type) stands at 20; when the counter reaches 20 the driver moves
\* by exactly one step, to the next case type of the catalog or, after the
\* last one, to the first type of the year below, and it moves at no other
\* moment; the first lookup of a (year, type) is issued for case number 1
\* with the miss counter at 0.
C1_AdvanceAtThreshold ==
  /\ [](pc \in {"probe", "pool", "handle"} => continuous_no_case < MissThreshold)
  /\ [][ /\ (pc = "check" /\ continuous_no_case = MissThreshold)
              => << FROM_YEAR', type_idx' >> =
                   IF type_idx < Len(REQUIRED_CASE_TYPES)
                   THEN << FROM_YEAR, type_idx + 1 >>
                   ELSE << FROM_YEAR - 1, IF FROM_YEAR > FloorYear THEN 1 ELSE type_idx >>
         /\ (<< FROM_YEAR', type_idx' >> # << FROM_YEAR, type_idx >>)
              => /\ pc = "check" /\ continuous_no_case = MissThreshold
                 /\ pc' = "probe" => (case_no' = 1 /\ continuous_no_case' = 0)
                 /\ pc' # "probe" => (pc' = "done" /\ FROM_YEAR' < FloorYear)
         /\ (probed = << >> /\ probed' # << >>)
              => /\ query'.regno = "1"
                 /\ query'.ctype = REQUIRED_CASE_TYPES[type_idx]
                 /\ query'.regyr = Str(FROM_YEAR)
                 /\ continuous_no_case = 0
       ]_vars

\* The first lookup of a pair reached by a year step and then a type step.
C1_Witness ==
  /\ pc = "handle"
  /\ FROM_YEAR = StartYear - 1
  /\ type_idx = 2
  /\ probed = << "1" >>
  /\ continuous_no_case = 0

\* C2: when the inner loop is left, the last 20 lookups of the pair all
\* returned "no case".
C2_LastTwentyMissed ==
  (pc = "check" /\ continuous_no_case = MissThreshold)
    => /\ Len(hits) >= MissThreshold
       /\ \A i \in (Len(hits) - MissThreshold + 1)..Len(hits) : ~hits[i]

\* C3: a lookup that returned a dict is followed, before anything else the
\* driver does, by the insert of that dict (with its case_info) at the end
\* of the collection; a lookup that returned None leaves the collection as
\* it is; the collection changes in no other way; no two documents of the
\* collection are the same case; and when the next lookup is issued the
\* last dict returned is the last document of the collection.
C3_OneInsertPerHit ==
  /\ [](\A i \in DOMAIN store : \A j \in DOMAIN store :
          i # j => store[i].case_info # store[j].case_info)
  /\ []((pc = "probe" /\ result # None)
          => /\ store # << >>
             /\ [k \in DOMAIN result[1] |-> store[Len(store)][k]] = result[1])
  /\ [][ /\ (pc = "handle" /\ result # None /\ pc' # "raised")
              => (pc' = "check" /\ Len(store') = Len(store) + 1)
         /\ (pc = "handle" /\ result = None) => store' = store
         /\ store' # store
              => /\ pc = "handle" /\ result # None
                 /\ Len(store') = Len(store) + 1
                 /\ SubSeq(store', 1, Len(store)) = store
                 /\ [k \in DOMAIN result[1] |-> store'[Len(store')][k]] = result[1]
       ]_vars

\* A dict with an order was inserted and the lookups went on after it.
C3_Witness ==
  /\ pc = "handle"
  /\ result = None
  /\ Len(store) = 1
  /\ Len(store[1].orders) >= 1
  /\ TRUE \in { hits[i] : i \in DOMAIN hits }

\* C4: the document inserted carries the case_info
\* "{ctype}/{regno}/{regyr}" of the lookup that returned it.
C4_CaseInfoOfProbe ==
  [][ store' # store
        => store'[Len(store')].case_info =
             query.ctype \o "/" \o query.regno \o "/" \o query.regyr ]_vars

\* The second case type's case 2 of year 2000 was found and inserted.
C4_Witness ==
  /\ store # << >>
  /\ store[1].case_info = "FAO(OS) (COMM)/2/2000"
  /\ case_no > 2

\* C5: when get_case_details returns a dict for a page whose table has N
\* data rows (N = 0 without a table), orders has length N and orders[i]
\* holds the five stripped cell texts of data row i, whatever the order in
\* which the workers ran.
C5_OrdersInRowOrder ==
  (pc = "handle" /\ result # None)
    => LET N == IF page.table = None THEN 0 ELSE Len(page.table[1].tr) - 1
           orders == result[1].orders
       IN  /\ Len(orders) = N
           /\ \A i \in 1..N :
                /\ orders[i].snumber = << Str(i) \o ".1" >>
                /\ orders[i].case_number = << Str(i) \o ".2" >>
                /\ orders[i].date_of_order = << Str(i) \o ".3" >>
                /\ orders[i].corrigenda_link = << Str(i) \o ".4" >>
                /\ orders[i].hindi_order = << Str(i) \o ".5" >>

\* Two rows with documents, the second row's download made first.
C5_Witness ==
  /\ pc = "handle"
  /\ result # None
  /\ Len(result[1].orders) = 2
  /\ result[1].orders[1].url = << "https://archive/2.pdf" >>
  /\ result[1].orders[2].url = << "https://archive/1.pdf" >>

\* C6: the lookups issued for a (year, type) are the case numbers 1, 2, ...
\* in ascending order without gap or repetition, never more than 20 + h
\* and exactly 20 + h when the pair is left, h being the number of lookups
\* of the pair that returned a dict; h is also the number of documents of
\* the pair in the collection (none when every lookup failed).
C6_ProbesOfPair ==
  /\ [](LET h == Cardinality({ i \in DOMAIN hits : hits[i] })
            infos == { case_type \o "/" \o probed[i] \o "/" \o Str(FROM_YEAR) :
                         i \in DOMAIN probed }
            docs == { k \in DOMAIN store : store[k].case_info \in infos }
        IN  /\ \A i \in DOMAIN probed : probed[i] = Str(i)
            /\ Len(probed) <= MissThreshold + h
            /\ pc \in {"probe", "pool", "handle", "check"} => Cardinality(docs) = h
            /\ (pc = "check" /\ continuous_no_case = MissThreshold)
                 => Len(probed) = MissThreshold + h)
  /\ [][ (probed # << >> /\ probed' = << >>)
           => Len(probed) =
                MissThreshold + Cardinality({ i \in DOMAIN hits : hits[i] }) ]_vars

\* A pair left after 21 lookups, one of which found a case.
C6_Witness ==
  /\ pc = "check"
  /\ continuous_no_case = MissThreshold
  /\ Len(probed) = MissThreshold + 1
  /\ probed[Len(probed)] = "21"
  /\ Len(store) = 1

\* C7: a row with a document link whose download gave no file still ends
\* as a finished row record without a URL.
C7_DocumentFailureAbsorbed ==
  [][ \A i \in DOMAIN futures :
        (futures[i].st = "cleanup" /\ futures[i].path = None
           /\ futures'[i] # futures[i])
          => /\ futures'[i].st = "done"
             /\ ("url" \in DOMAIN futures'[i].temp => futures'[i].temp.url = None)
    ]_vars

\* C8: a lookup whose request failed (connection, timeout, status) or
\* whose page has fewer than two headings returns None without raising;
\* the driver then adds exactly one to the miss counter and inserts
\* nothing.
C8_FailedLookupIsMiss ==
  /\ [](LET absent == \/ page \in FailedResponses
                      \/ (page.kind = "page" /\ Len(page.h5) < 2)
        IN  absent => (pc = "handle" /\ result = None /\ exc = None))
  /\ [][ LET absent == \/ page \in FailedResponses
                       \/ (page.kind = "page" /\ Len(page.h5) < 2)
         IN  (pc = "handle" /\ absent)
               => /\ pc' = "check"
                  /\ continuous_no_case' = continuous_no_case + 1
                  /\ store' = store ]_vars

\* A page with a single heading came back as None after 19 misses.
C8_Witness ==
  /\ pc = "handle"
  /\ page.kind = "page"
  /\ Len(page.h5) = 1
  /\ result = None
  /\ continuous_no_case = MissThreshold - 1

C10_ShortRowAbortsOnlyRow ==
  (/\ pc \in {"pool", "raised"}
   /\ \E i \in DOMAIN futures : Len(DataRows(page)[i].td) < NumCells)
    => /\ pc # "raised"
       /\ \A j \in DOMAIN futures : futures[j].st # "cancelled"

\* C11: no failure of the upstream, the disk, the archive or the collection
\* gets out of the driver loop: no exception ends the process, and a crawl
\* that started is at rest only after the year went below the floor.
C11_NothingRaisesPastDriver ==
  /\ exc = None
  /\ pc # "raised"
  /\ (captcha_code # None /\ Truthy(captcha_code) /\ ~(ENABLED Next))
       => (pc = "done" /\ FROM_YEAR < FloorYear)

\* C12: after a successful upload of a file name, and as long as no later
\* call is made for that name, the container holds exactly one blob under
\* the name and it has the content of that upload, whatever the container
\* held under the name before (an earlier upload included); the container
\* never holds two blobs under one name.
C12_OneLiveObjectPerName ==
  /\ \A a \in archive : \A b \in archive : a.name = b.name => a = b
  /\ pc = "uploader" =>
       \A j \in DOMAIN futures :
         LET name == BlobName(futures[j].path[1])
         IN  (/\ futures[j].temp.url # None
              /\ \A k \in (j + 1)..Len(futures) : BlobName(futures[k].path[1]) # name)
               => { b \in archive : b.name = name } =
                    { [name |-> name, content |-> futures[j].pdf_path] }

\* Two successful uploads of one file name with different contents.
C12_Witness ==
  /\ pc = "uploader"
  /\ Len(futures) = 2
  /\ futures[1].path = futures[2].path
  /\ futures[1].temp.url # None
  /\ futures[2].temp.url # None
  /\ futures[1].pdf_path # futures[2].pdf_path
  /\ Cardinality(archive) = 1

\* C13: once get_captcha has answered without a usable token (None after
\* a request error, a bad status or a missing element; an empty text), the
\* process is at its end: no lookup was or will be issued, no file was
\* downloaded, nothing was uploaded and nothing was inserted.
C13_NoTokenNoCrawl ==
  (pc # "captcha" /\ ~Truthy(captcha_code))
    => /\ pc = "no_captcha"
       /\ ~(ENABLED Next)
       /\ query = NoQuery
       /\ probed = << >>
       /\ futures = << >>
       /\ disk = {}
       /\ archive = {}
       /\ uuid = 1
       /\ store = << >>

\* get_captcha returned None and the process stopped.
C13_Witness ==
  /\ pc = "no_captcha"
  /\ captcha_code = None

\* C14: a crawl that has started always comes to its end with the year
\* below the floor, every year down to 2000 and every case type of each
\* year having been gone through.
C14_DriverTerminates ==
  (pc = "probe") ~> (pc = "done" /\ FROM_YEAR = FloorYear - 1)

\* C15: inside a (year, type) pair the miss counter never goes down and a
\* lookup that returned a dict leaves it as it is: the counter is the
\* number of misses of the pair so far, whatever hits lie between them,
\* and the pair is left right after its 20th miss.
C15_MissesAccumulate ==
  /\ [](LET misses == Cardinality({ i \in DOMAIN hits : ~hits[i] })
        IN  /\ pc \in {"probe", "pool", "handle", "check"}
                 => continuous_no_case = misses
            /\ (pc = "check" /\ continuous_no_case = MissThreshold)
                 => ~hits[Len(hits)])
  /\ [][ /\ (FROM_YEAR' = FROM_YEAR /\ type_idx' = type_idx)
              => continuous_no_case' >= continuous_no_case
         /\ (pc = "handle" /\ result # None)
              => continuous_no_case' = continuous_no_case
         /\ (pc = "check" /\ continuous_no_case < MissThreshold)
              => (pc' = "probe" /\ FROM_YEAR' = FROM_YEAR /\ type_idx' = type_idx
                  /\ case_no' = case_no + 1)
         /\ (pc = "check" /\ continuous_no_case = MissThreshold)
              => << FROM_YEAR', type_idx' >> # << FROM_YEAR, type_idx >>
       ]_vars

\* 19 misses, then a hit, then one more miss: the pair ends at that miss.
C15_Witness ==
  /\ pc = "check"
  /\ continuous_no_case = MissThreshold
  /\ Len(hits) = MissThreshold + 1
  /\ hits[MissThreshold]
  /\ case_no = MissThreshold + 1

\* C16: never more than 5 rows are being extracted at once; a row is being
\* extracted only while the main thread is inside the executor block of
\* the lookup last issued, and every such row is a row of that lookup's
\* page; while a row is being extracted no lookup is issued, nothing is
\* inserted and the driver's cursor stands still.
C16_AtMostFiveRowsInFlight ==
  /\ [](NumRunning <= max_workers)
  /\ []((NumRunning > 0)
          => /\ pc = "pool"
             /\ query.regno = Str(case_no)
             /\ probed[Len(probed)] = query.regno
             /\ DOMAIN futures = DOMAIN DataRows(page))
  /\ [][ (NumRunning > 0)
           => /\ probed' = probed
              /\ query' = query
              /\ store' = store
              /\ cursor' = cursor
              /\ pc' = "pool" ]_vars

\* Five rows are with their workers and the sixth waits for one of them.
C16_Witness ==
  /\ pc = "pool"
  /\ NumRunning = max_workers
  /\ Len(futures) = max_workers + 1
  /\ futures[1].st = "cleanup"
  /\ futures[max_workers + 1].st = "pending"

\* C17: in the orders of a dict returned by get_case_details, and in the
\* result of every row the pool has finished, url is the URL of a blob of
\* the archive exactly when the row had a document link, its download gave
\* a file and the upload of that file succeeded (the blob holds the row's
\* document); otherwise url is None, and it is never an empty string.
C17_UrlIffArchived ==
  /\ (pc = "pool") =>
       \A i \in DOMAIN futures :
         futures[i].st = "done" =>
           LET cells == DataRows(page)[i].td
               f == futures[i]
               uploaded ==
                 /\ HasLink(cells)
                 /\ f.path # None
                 /\ [name |-> BlobName(f.path[1]), content |-> LinkPath(cells)]
                      \in archive
           IN  /\ "url" \in DOMAIN f.temp
               /\ f.temp.url # Some("")
               /\ f.temp.url # None <=> uploaded
               /\ f.temp.url # None
                    => f.temp.url = Some("https://archive/" \o BlobName(f.path[1]))
  /\ (pc = "handle" /\ result # None) =>
       \A i \in DOMAIN result[1].orders :
         LET cells == DataRows(page)[i].td
             o == result[1].orders[i]
         IN  /\ "url" \in DOMAIN o
             /\ o.url # Some("")
             /\ o.url # None
                  <=> /\ HasLink(cells)
                      /\ \E b \in archive :
                           /\ b.content = LinkPath(cells)
                           /\ o.url = Some("https://archive/" \o b.name)

\* Two rows with documents, both downloaded: the upload of the first one
\* failed and the upload of the second one succeeded.
C17_Witness ==
  /\ pc = "handle"
  /\ result # None
  /\ Len(result[1].orders) = 2
  /\ HasLink(DataRows(page)[1].td)
  /\ HasLink(DataRows(page)[2].td)
  /\ result[1].orders[1].url = None
  /\ result[1].orders[2].url # None

\* C18: a call of download_pdf that returned None has left no file: every
\* file under PDF_DIR is whole and is the file a download has returned to
\* the row that is still working on it.
C18_NoPartialFile ==
  \A d \in disk :
    /\ d.whole
    /\ \E i \in DOMAIN futures : futures[i].path = Some(d.path)

\* C19: the file a download has returned stays on the disk through the
\* upload, whatever the upload's outcome (the uploader removes nothing),
\* and is removed by the row's clean_up right after it: a row that has
\* finished has no file left, and once the pool is closed no downloaded
\* file is left at all.
C19_TempFileRemovedByCaller ==
  /\ [](\A i \in DOMAIN futures :
          LET f == futures[i]
              mine == { d \in disk : f.path = Some(d.path) }
          IN  /\ (f.st \in {"upload", "cleanup"} /\ f.path # None)
                   => mine = { [path |-> f.path[1], content |-> f.pdf_path,
                                whole |-> TRUE] }
              /\ f.st \in {"done", "raised", "cancelled"} => mine = {})
  /\ [](pc \in {"probe", "handle", "check", "done", "raised"}
          => \A d \in disk : ~d.whole)
  /\ [][ \A i \in DOMAIN futures :
           (i \in DOMAIN futures' /\ futures'[i] # futures[i])
             => /\ futures[i].st = "upload"
                     => /\ disk' = disk
                        /\ futures'[i].st = "cleanup"
                        /\ futures'[i].path = futures[i].path
                /\ (futures[i].st = "cleanup" /\ futures[i].path # None)
                     => /\ futures'[i].st = "done"
                        /\ disk' = { d \in disk : d.path # futures[i].path[1] }
                        /\ disk' # disk
       ]_vars

\* A row whose upload failed has finished and its file is gone.
C19_Witness ==
  /\ pc = "pool"
  /\ Len(futures) = 1
  /\ futures[1].st = "done"
  /\ futures[1].path # None
  /\ futures[1].temp.url = None
  /\ disk = {}
  /\ archive = {}

\* C20: once the driver is past a lookup (at the loop test, at the next
\* lookup, or at the end of the run, however it ended), every blob of the
\* archive is the url of exactly one order of a document of the collection.
C20_NoOrphanedBlob ==
  pc \in {"check", "probe", "done", "raised"} =>
    \A b \in archive :
      Cardinality({ ki \in { << k, i >> : k \in DOMAIN store, i \in 1..MaxRows } :
                      /\ ki[2] \in DOMAIN store[ki[1]].orders
                      /\ store[ki[1]].orders[ki[2]].url = Some(BlobUrl(b.name)) }) = 1

====
